---- MODULE Spec2Model ----
(***************************************************************************)
(* View-model layer of the patient-intake web client: the Patient Form,   *)
(* the Summary, Plan and Chat panels and the root composition (toast).    *)
(*                                                                         *)
(* Each component exists in the repository in two versions, a styled one   *)
(* and a plain one; `variant` selects which one is mounted.                *)
(*   Summary : styled = frontend/src/components/SummaryPanel.tsx           *)
(*             plain  = unnamed/part_002                                   *)
(*   Plan    : styled = unnamed/part_000                                   *)
(*             plain  = frontend/src/components/PlanPanel.tsx              *)
(*   Chat    : styled = frontend/src/components/ChatPanel.tsx              *)
(*             plain  = unnamed/part_001                                   *)
(*   Form    : styled = PatientForm.tsx lines 1-504                        *)
(*             plain  = PatientForm.tsx lines 505-652                      *)
(*                                                                         *)
(* Encoding.  Text typed by the user is a sequence of one-character        *)
(* strings, so that String.prototype.trim can be computed.  Texts produced *)
(* by the backend (messages, summaries, answers) are atomic strings.       *)
(* A nullable or optional value is <<>> (null / undefined) or <<v>>.       *)
(***************************************************************************)
EXTENDS Integers, Sequences, FiniteSets, TLC

\* ------------------------------------------------------------------ bounds

\* generate / ask actions started per panel in one run
MaxFlows == 2

\* submits of the Patient Form in one run
MaxSubmits == 2

\* submits of the Patient Form in one run while its collections are edited
MaxDraftSubmits == 1

\* medications held by the draft
MaxMeds == 2

\* positions of a list of the draft a remove button exists for
MaxItems == 2

\* ------------------------------------------------------------- JS helpers

Null == <<>>
Some(v) == <<v>>
IsNull(o) == o = <<>>
Val(o) == o[1]

\* whitespace characters of the modelled alphabet
Whitespace == {" "}

RECURSIVE TrimStart(_)
TrimStart(s) ==
  IF s = <<>> THEN <<>>
  ELSE IF Head(s) \in Whitespace THEN TrimStart(Tail(s)) ELSE s

RECURSIVE TrimEnd(_)
TrimEnd(s) ==
  IF s = <<>> THEN <<>>
  ELSE IF s[Len(s)] \in Whitespace THEN TrimEnd(SubSeq(s, 1, Len(s) - 1)) ELSE s

\* String.prototype.trim
Trim(s) == TrimEnd(TrimStart(s))

\* `!s.trim()`
IsBlankMutEmptyOnly(s) == s = <<>>
IsBlank(s) == Trim(s) = <<>>

\* `a || b` on an optional atomic string: undefined, null and '' are falsy
OrString(o, d) == IF IsNull(o) \/ Val(o) = "" THEN d ELSE Val(o)

\* `a || b` on an optional array or object: only undefined / null are falsy
OrObjectMutAlwaysDefault(o, d) == d
OrObject(o, d) == IF IsNull(o) THEN d ELSE Val(o)

\* `e?.response?.data?.detail || fallback`
ErrorMessageMutEmpty(detail, fallback) == IF IsNull(detail) THEN fallback ELSE Val(detail)
ErrorMessage(detail, fallback) == OrString(detail, fallback)

\* ------------------------------------------------------------ input domains

Variants == {"styled", "plain"}

\* patient identifiers a user types into a panel: empty, whitespace-only, and
\* one identifier proper
IdTexts == {<<>>, <<" ">>, <<"P">>}

\* `detail` of a rejected call: absent, empty, or a message
Details == {Null, Some(""), Some("Patient not found")}

\* raw SummaryData objects as the backend may return them (fields optional)
RawFull ==
  [summary |-> Some("stable"), riskFactors |-> Some(<<"smoking">>),
   clinicalInsights |-> Some(<<"monitor">>), urgencyLevel |-> Some("High"),
   similarCases |-> Some(<<"case-1">>), similarSymptoms |-> Null,
   timestamp |-> Some("t0")]
RawBare ==
  [summary |-> Some("stable"), riskFactors |-> Null, clinicalInsights |-> Null,
   urgencyLevel |-> Null, similarCases |-> Null,
   similarSymptoms |-> Some(<<"cough">>), timestamp |-> Null]
RawEmpty ==
  [summary |-> Null, riskFactors |-> Null, clinicalInsights |-> Null,
   urgencyLevel |-> Null, similarCases |-> Null, similarSymptoms |-> Null,
   timestamp |-> Null]
RawSummaries == {RawFull, RawBare, RawEmpty}

\* bodies of GET /patients/{id}: Patient + optional summary / summaryData
RecNone == [summary |-> Null, similarSymptoms |-> Null, summaryData |-> Null]
RecStored ==
  [summary |-> Some("stable"), similarSymptoms |-> Some(<<"cough">>),
   summaryData |-> Some(RawFull)]
RecBare == [summary |-> Null, similarSymptoms |-> Null, summaryData |-> Some(RawBare)]
RecEmptyData == [summary |-> Null, similarSymptoms |-> Null, summaryData |-> Some(RawEmpty)]
PatientRecords == {RecNone, RecStored, RecBare, RecEmptyData}

\* bodies of POST /patients/{id}/summarize: {message, data?}
SummarizeResponses == {[data |-> Null], [data |-> Some(RawFull)], [data |-> Some(RawBare)]}

\* PlanItem values and bodies of GET / POST /patients/{id}/plan: {plan?}
ItemDosage == [recommendation |-> "Increase dosage", justification |-> "Low adherence"]
ItemDiet == [recommendation |-> "Low-salt diet", justification |-> "Hypertension"]
PlanResponses ==
  {[plan |-> Null], [plan |-> Some(<<>>)], [plan |-> Some(<<ItemDosage>>)],
   [plan |-> Some(<<ItemDiet, ItemDosage>>)]}

\* questions a user types into the chat panel
QuestionTexts == {<<>>, <<" ">>, <<"X">>, <<"Y">>}

\* bodies of POST /chat: {answer, sources?}
ChatResponses ==
  {[answer |-> "Y", sources |-> Some(<<"https://a">>)],
   [answer |-> "Z", sources |-> Null],
   [answer |-> "", sources |-> Some(<<>>)]}

\* values typed into the Patient Form
FieldTexts == {<<>>, <<"P">>}
Ages == {0, 42}
ComorbidityTexts == {<<>>, <<" ">>, <<"a">>, <<"a", " ">>, <<"A">>}
KeyTexts == {<<>>, <<" ">>, <<"k">>, <<" ", "k">>, <<"j">>}
ValueTexts == {"", "v"}
MedNames == {<<>>, <<" ">>, <<"m">>}

\* the values typed while a submit is exercised
SubmitComorbidityTexts == {<<>>, <<"a">>}
SubmitKeyTexts == {<<>>, <<"k">>}
SubmitMedNames == {<<>>, <<"m">>}

\* bodies of POST /patients: {message, patientId}
CreateResponses == {[message |-> "saved", patientId |-> "P"]}

\* values of new Date().toISOString()
Times == {"now"}

\* -------------------------------------------------------------------- state

VARIABLES
  variant,              \* which version of the components is mounted
  mounted,              \* the component rendered (the unit under test)
  ev,                   \* the last event handled (user event or settled call)
  summary_patientId,    \* SummaryPanel: useState('')
  summary_loading,      \* SummaryPanel: useState(false)
  summary_summaryData,  \* SummaryPanel (styled): useState<SummaryData | null>(null)
  summary_summary,      \* SummaryPanel (plain): useState<string | null>(null)
  summary_symptoms,     \* SummaryPanel (plain): useState<string[]>([])
  summary_error,        \* SummaryPanel: useState<string | null>(null)
  summary_flows,        \* onSummarize invocations awaiting a remote call
  summary_done,         \* onSummarize invocations that ran to their end
  summary_issued,       \* number of onSummarize invocations started
  plan_patientId,       \* PlanPanel: useState('')
  plan_loading,         \* PlanPanel: useState(false)
  plan_plan,            \* PlanPanel: useState<PlanItem[]>([])
  plan_error,           \* PlanPanel: useState<string | null>(null)
  plan_isGenerating,    \* PlanPanel (styled): useState(false)
  plan_flows,           \* onGenerate invocations awaiting a call or the timer
  plan_done,            \* onGenerate invocations that ran to their end
  plan_issued,          \* number of onGenerate invocations started
  chat_question,        \* ChatPanel: useState('')
  chat_loading,         \* ChatPanel: useState(false)
  chat_answer,          \* ChatPanel: useState<string | null>(null)
  chat_sources,         \* ChatPanel: useState<string[]>([])
  chat_error,           \* ChatPanel: useState<string | null>(null)
  chat_flows,           \* onAsk invocations awaiting chat()
  chat_done,            \* onAsk invocations that ran to their end
  chat_issued,          \* number of onAsk invocations started
  editing,              \* the sub-form of the Patient Form the user works on
  form_patient,         \* PatientForm: useState<Patient>({...})
  form_comorbidityInput,\* PatientForm: comorbidity input (state or DOM value)
  form_markerKey,       \* PatientForm: useState('')
  form_markerValue,     \* PatientForm: useState('')
  form_lifeKey,         \* PatientForm: useState('')
  form_lifeValue,       \* PatientForm: useState('')
  form_med,             \* PatientForm: useState<Medication>({name:'',dosage:'',adherence:''})
  form_loading,         \* PatientForm: useState(false)
  form_flows,           \* handleSubmit invocations awaiting createPatient
  form_issued,          \* number of createPatient calls issued
  app_toast,            \* App: useState<string | null>(null)
  app_toastType,        \* App: useState<'success' | 'error'>('success')
  app_toastSeq,         \* App: number of showToast calls so far
  app_timers            \* App: pending setTimeout(() => setToast(null)) callbacks,
                        \* each named by the showToast call that scheduled it

summaryVars ==
  <<summary_patientId, summary_loading, summary_summaryData, summary_summary,
    summary_symptoms, summary_error, summary_flows, summary_done, summary_issued>>

planVars ==
  <<plan_patientId, plan_loading, plan_plan, plan_error, plan_isGenerating,
    plan_flows, plan_done, plan_issued>>

chatVars ==
  <<chat_question, chat_loading, chat_answer, chat_sources, chat_error,
    chat_flows, chat_done, chat_issued>>

formVars ==
  <<editing, form_patient, form_comorbidityInput, form_markerKey, form_markerValue,
    form_lifeKey, form_lifeValue, form_med, form_loading, form_flows, form_issued,
    app_toast, app_toastType, app_toastSeq, app_timers>>

vars == <<variant, mounted, ev, summaryVars, planVars, chatVars, formVars>>

\* the identifier a call made later in an invocation carries: `patientId` is a
\* constant of the render the handler was created in, so it is the value the
\* invocation started with, whatever the input holds by then
CallIdMutLive(started, current) == current
CallId(started, current) == started

\* ------------------------------------------------------------ Summary panel

SummaryFallback ==
  IF variant = "styled"
  THEN "Failed to generate clinical summary. Please check patient ID and try again."
  ELSE "Failed to summarize"

normalizeSummaryDataMutNoAlias(data, now) ==
  [summary          |-> OrString(data.summary, ""),
   riskFactors      |-> OrObject(data.riskFactors, <<>>),
   clinicalInsights |-> OrObject(data.clinicalInsights, <<>>),
   urgencyLevel     |-> OrString(data.urgencyLevel, "Low"),
   similarCases     |-> OrObject(data.similarCases, <<>>),
   timestamp        |-> OrString(data.timestamp, now)]
normalizeSummaryData(data, now) ==
  [summary          |-> OrString(data.summary, ""),
   riskFactors      |-> OrObject(data.riskFactors, <<>>),
   clinicalInsights |-> OrObject(data.clinicalInsights, <<>>),
   urgencyLevel     |-> OrString(data.urgencyLevel, "Low"),
   similarCases     |-> OrObject(data.similarCases, OrObject(data.similarSymptoms, <<>>)),
   timestamp        |-> OrString(data.timestamp, now)]

\* the read-through test on the fetched record
SummaryStoredMutNever(rec) == FALSE
SummaryStored(rec) ==
  IF variant = "styled"
  THEN ~IsNull(rec.summaryData)
  ELSE /\ ~IsNull(rec.summary) /\ Val(rec.summary) # ""
       /\ ~IsNull(rec.similarSymptoms)

\* `disabled` of the generate button
SummaryButtonDisabled ==
  IF variant = "styled"
  THEN IsBlank(summary_patientId) \/ summary_loading
  ELSE summary_patientId = <<>> \/ summary_loading

SummaryMounted == mounted \in {"summary", "all"}

SummaryInit ==
  /\ summary_patientId = <<>>
  /\ summary_loading = FALSE
  /\ summary_summaryData = Null
  /\ summary_summary = Null
  /\ summary_symptoms = <<>>
  /\ summary_error = Null
  /\ summary_flows = {}
  /\ summary_done = {}
  /\ summary_issued = 0

\* input onChange
SummarySetPatientId(t) ==
  /\ SummaryMounted
  /\ summary_patientId' = t
  /\ ev' = [op |-> "summary.onChange"]
  /\ UNCHANGED <<variant, mounted, planVars, chatVars, formVars, summary_loading, summary_summaryData, summary_summary,
                 summary_symptoms, summary_error, summary_flows, summary_done,
                 summary_issued>>

\* body of onSummarize up to its first await
OnSummarize(via) ==
  IF variant = "styled" /\ IsBlank(summary_patientId)
  THEN /\ ev' = [op |-> "summary.onSummarize", via |-> via, n |-> 0]
       /\ UNCHANGED <<variant, mounted, planVars, chatVars, formVars, summaryVars>>
  ELSE /\ summary_issued < MaxFlows
       /\ summary_issued' = summary_issued + 1
       /\ summary_loading' = TRUE
       /\ summary_error' = Null
       /\ summary_summaryData' = Null
       /\ summary_summary' = Null
       /\ summary_symptoms' = <<>>
       /\ summary_flows' = summary_flows \cup
            {[n |-> summary_issued + 1, id |-> summary_patientId,
              pc |-> "getPatient", nGet |-> 1, nGen |-> 0, genId |-> Null]}
       /\ ev' = [op |-> "summary.onSummarize", via |-> via, n |-> summary_issued + 1]
       /\ UNCHANGED <<variant, mounted, planVars, chatVars, formVars, summary_patientId, summary_done>>

\* click on the generate button
SummaryClick ==
  /\ SummaryMounted
  /\ ~SummaryButtonDisabled
  /\ OnSummarize("click")

\* Enter in the identifier input (styled version only; the input is never disabled)
SummaryEnter ==
  /\ SummaryMounted
  /\ variant = "styled"
  /\ OnSummarize("enter")

\* an invocation ends: what it called and what it wrote into the panel
SummaryFinish(f, kind, data, summary, symptoms, error) ==
  summary_done' = summary_done \cup
    {[n |-> f.n, nGet |-> f.nGet, nGen |-> f.nGen, kind |-> kind,
      summaryData |-> data, summary |-> summary, symptoms |-> symptoms,
      error |-> error]}

\* getPatient(id) resolves
SummaryGetPatientOk(f, rec, now) ==
  /\ f \in summary_flows /\ f.pc = "getPatient"
  /\ IF SummaryStored(rec)
     THEN /\ IF variant = "styled"
             THEN /\ summary_summaryData' =
                       Some(normalizeSummaryData(Val(rec.summaryData), now))
                  /\ UNCHANGED <<summary_summary, summary_symptoms>>
             ELSE /\ summary_summary' = rec.summary
                  /\ summary_symptoms' = Val(rec.similarSymptoms)
                  /\ UNCHANGED summary_summaryData
          /\ summary_loading' = FALSE
          /\ summary_flows' = summary_flows \ {f}
          /\ UNCHANGED summary_error
          /\ SummaryFinish(f, "stored", summary_summaryData', summary_summary',
                           summary_symptoms', Null)
          /\ ev' = [op |-> "summary.getPatient.ok", n |-> f.n, rec |-> rec]
     ELSE /\ summary_flows' = (summary_flows \ {f}) \cup
               {[f EXCEPT !.pc = "summarizePatient", !.nGen = f.nGen + 1,
                          !.genId = Some(CallId(f.id, summary_patientId))]}
          /\ ev' = [op |-> "summary.getPatient.ok", n |-> f.n, rec |-> rec]
          /\ UNCHANGED <<summary_loading, summary_summaryData, summary_summary,
                         summary_symptoms, summary_error, summary_done>>
  /\ UNCHANGED <<variant, mounted, planVars, chatVars, formVars, summary_patientId, summary_issued>>

\* summarizePatient(id) resolves
SummarizeOk(f, res, now) ==
  /\ f \in summary_flows /\ f.pc = "summarizePatient"
  /\ IF variant = "styled"
     THEN /\ summary_summaryData' =
               IF ~IsNull(res.data)
               THEN Some(normalizeSummaryData(Val(res.data), now))
               ELSE summary_summaryData
          /\ UNCHANGED <<summary_summary, summary_symptoms>>
     ELSE /\ summary_summary' = IF IsNull(res.data) THEN Null ELSE Val(res.data).summary
          /\ summary_symptoms' =
               IF IsNull(res.data) THEN <<>>
               ELSE OrObject(Val(res.data).similarSymptoms, <<>>)
          /\ UNCHANGED summary_summaryData
  /\ summary_loading' = FALSE
  /\ summary_flows' = summary_flows \ {f}
  /\ UNCHANGED <<variant, mounted, planVars, chatVars, formVars, summary_patientId, summary_error, summary_issued>>
  /\ IF variant = "styled" /\ IsNull(res.data)
     THEN SummaryFinish(f, "nodata", Null, Null, <<>>, Null)
     ELSE SummaryFinish(f, "generated", summary_summaryData', summary_summary',
                        summary_symptoms', Null)
  /\ ev' = [op |-> "summary.summarizePatient.ok", n |-> f.n, res |-> res]

\* getPatient(id) or summarizePatient(id) rejects
SummaryCallFail(f, detail) ==
  /\ f \in summary_flows
  /\ summary_error' = Some(ErrorMessage(detail, SummaryFallback))
  /\ summary_loading' = FALSE
  /\ summary_flows' = summary_flows \ {f}
  /\ UNCHANGED <<variant, mounted, planVars, chatVars, formVars, summary_patientId, summary_summaryData, summary_summary,
                 summary_symptoms, summary_issued>>
  /\ SummaryFinish(f, "failed", Null, Null, <<>>, summary_error')
  /\ ev' = [op |-> "summary.fail", call |-> f.pc, n |-> f.n, detail |-> detail]

\* --------------------------------------------------------------- Plan panel

PlanFallback ==
  IF variant = "styled" THEN "Failed to generate treatment plan"
  ELSE "Failed to generate plan"

\* `existing.plan && existing.plan.length > 0`
PlanExistsMutNever(existing) == FALSE
PlanExistsMutNoLength(existing) == ~IsNull(existing.plan)
PlanExists(existing) == ~IsNull(existing.plan) /\ Len(Val(existing.plan)) > 0

\* `disabled` of the generate button
PlanButtonDisabled ==
  IF variant = "styled"
  THEN IsBlank(plan_patientId) \/ plan_loading
  ELSE plan_patientId = <<>> \/ plan_loading

PlanMounted == mounted \in {"plan", "all"}

PlanInit ==
  /\ plan_patientId = <<>>
  /\ plan_loading = FALSE
  /\ plan_plan = <<>>
  /\ plan_error = Null
  /\ plan_isGenerating = FALSE
  /\ plan_flows = {}
  /\ plan_done = {}
  /\ plan_issued = 0

\* input onChange
PlanSetPatientIdMutShared(t) ==
  /\ PlanMounted
  /\ plan_patientId' = t
  /\ summary_patientId' = t
  /\ ev' = [op |-> "plan.onChange"]
  /\ UNCHANGED <<variant, mounted, chatVars, formVars, plan_loading, plan_plan,
                 plan_error, plan_isGenerating, plan_flows, plan_done, plan_issued,
                 summary_loading, summary_summaryData, summary_summary,
                 summary_symptoms, summary_error, summary_flows, summary_done,
                 summary_issued>>
PlanSetPatientId(t) ==
  /\ PlanMounted
  /\ plan_patientId' = t
  /\ ev' = [op |-> "plan.onChange"]
  /\ UNCHANGED <<variant, mounted, summaryVars, chatVars, formVars, plan_loading, plan_plan, plan_error,
                 plan_isGenerating, plan_flows, plan_done, plan_issued>>

\* body of onGenerate up to its first await; `cleared` is what setPlan calls
\* queued before it (handleRegenerate) leave in plan
OnGenerate(via) ==
  IF variant = "styled" /\ IsBlank(plan_patientId)
  THEN /\ plan_plan' = IF via = "regenerate" THEN <<>> ELSE plan_plan
       /\ ev' = [op |-> "plan.onGenerate", via |-> via, n |-> 0]
       /\ UNCHANGED <<variant, mounted, summaryVars, chatVars, formVars, plan_patientId, plan_loading, plan_error,
                      plan_isGenerating, plan_flows, plan_done, plan_issued>>
  ELSE /\ plan_issued < MaxFlows
       /\ plan_issued' = plan_issued + 1
       /\ plan_loading' = TRUE
       /\ plan_error' = Null
       /\ plan_plan' = <<>>
       /\ plan_isGenerating' = FALSE
       /\ plan_flows' = plan_flows \cup
            {[n |-> plan_issued + 1, id |-> plan_patientId, pc |-> "getPlan",
              nGet |-> 1, nGen |-> 0, genId |-> Null, existing |-> Null,
              regenerate |-> via = "regenerate"]}
       /\ ev' = [op |-> "plan.onGenerate", via |-> via, n |-> plan_issued + 1]
       /\ UNCHANGED <<variant, mounted, summaryVars, chatVars, formVars, plan_patientId, plan_done>>

\* click on the generate button
PlanClick ==
  /\ PlanMounted
  /\ ~PlanButtonDisabled
  /\ OnGenerate("click")

\* handleKeyPress: Enter in the identifier input (styled version only; the input
\* is never disabled)
PlanEnter ==
  /\ PlanMounted
  /\ variant = "styled"
  /\ OnGenerate("enter")

\* handleRegenerate: the button is rendered with a non-empty plan and is
\* disabled while loading (styled version only)
handleRegenerate ==
  /\ PlanMounted
  /\ variant = "styled"
  /\ Len(plan_plan) > 0
  /\ ~plan_loading
  /\ OnGenerate("regenerate")

\* an invocation ends: what it called, what getPlan gave it and what it wrote
PlanFinish(f, kind, plan, error) ==
  plan_done' = plan_done \cup
    {[n |-> f.n, nGet |-> f.nGet, nGen |-> f.nGen, kind |-> kind,
      existing |-> f.existing, plan |-> plan, error |-> error]}

\* getPlan(id) resolves
PlanGetPlanOk(f, existing) ==
  /\ f \in plan_flows /\ f.pc = "getPlan"
  /\ IF PlanExists(existing)
     THEN /\ plan_plan' = Val(existing.plan)
          /\ plan_loading' = FALSE
          /\ plan_flows' = plan_flows \ {f}
          /\ UNCHANGED <<plan_error, plan_isGenerating>>
          /\ PlanFinish([f EXCEPT !.existing = Some(existing)], "stored",
                        plan_plan', Null)
     ELSE /\ IF variant = "styled"
             THEN /\ plan_isGenerating' = TRUE
                  /\ plan_flows' = (plan_flows \ {f}) \cup
                       {[f EXCEPT !.pc = "delay", !.existing = Some(existing)]}
             ELSE /\ plan_isGenerating' = plan_isGenerating
                  /\ plan_flows' = (plan_flows \ {f}) \cup
                       {[f EXCEPT !.pc = "generatePlan", !.nGen = f.nGen + 1,
                                  !.genId = Some(CallId(f.id, plan_patientId)),
                                  !.existing = Some(existing)]}
          /\ UNCHANGED <<plan_loading, plan_plan, plan_error, plan_done>>
  /\ ev' = [op |-> "plan.getPlan.ok", n |-> f.n, existing |-> existing,
            regenerate |-> f.regenerate]
  /\ UNCHANGED <<variant, mounted, summaryVars, chatVars, formVars, plan_patientId, plan_issued>>

\* the 1200 ms timer of the styled version fires; generatePlan(id) is called
PlanDelayElapsed(f) ==
  /\ f \in plan_flows /\ f.pc = "delay"
  /\ plan_flows' = (plan_flows \ {f}) \cup
       {[f EXCEPT !.pc = "generatePlan", !.nGen = f.nGen + 1,
                  !.genId = Some(CallId(f.id, plan_patientId))]}
  /\ ev' = [op |-> "plan.delay", n |-> f.n]
  /\ UNCHANGED <<variant, mounted, summaryVars, chatVars, formVars, plan_patientId, plan_loading, plan_plan,
                 plan_error, plan_isGenerating, plan_done, plan_issued>>

\* generatePlan(id) resolves
PlanGenerateOk(f, res) ==
  /\ f \in plan_flows /\ f.pc = "generatePlan"
  /\ plan_plan' = OrObject(res.plan, <<>>)
  /\ plan_isGenerating' = IF variant = "styled" THEN FALSE ELSE plan_isGenerating
  /\ plan_loading' = FALSE
  /\ plan_flows' = plan_flows \ {f}
  /\ UNCHANGED <<variant, mounted, summaryVars, chatVars, formVars, plan_patientId, plan_error, plan_issued>>
  /\ PlanFinish(f, "generated", plan_plan', Null)
  /\ ev' = [op |-> "plan.generatePlan.ok", n |-> f.n, res |-> res]

\* getPlan(id) or generatePlan(id) rejects
PlanCallFail(f, detail) ==
  /\ f \in plan_flows /\ f.pc \in {"getPlan", "generatePlan"}
  /\ plan_error' = Some(ErrorMessage(detail, PlanFallback))
  /\ plan_isGenerating' = IF variant = "styled" THEN FALSE ELSE plan_isGenerating
  /\ plan_loading' = FALSE
  /\ plan_flows' = plan_flows \ {f}
  /\ UNCHANGED <<variant, mounted, summaryVars, chatVars, formVars, plan_patientId, plan_plan, plan_issued>>
  /\ PlanFinish(f, "failed", <<>>, plan_error')
  /\ ev' = [op |-> "plan.fail", call |-> f.pc, n |-> f.n, detail |-> detail]

\* --------------------------------------------------------------- Chat panel

ChatFallback ==
  IF variant = "styled" THEN "Failed to get answer. Please try again."
  ELSE "Failed to get answer"

\* `disabled` of the ask button
ChatButtonDisabledMutNoTrim == chat_question = <<>> \/ chat_loading
ChatButtonDisabled == IsBlank(chat_question) \/ chat_loading

ChatMounted == mounted \in {"chat", "all"}

ChatInit ==
  /\ chat_question = <<>>
  /\ chat_loading = FALSE
  /\ chat_answer = Null
  /\ chat_sources = <<>>
  /\ chat_error = Null
  /\ chat_flows = {}
  /\ chat_done = {}
  /\ chat_issued = 0

\* textarea / input onChange; the styled textarea is disabled while loading
ChatSetQuestion(t) ==
  /\ ChatMounted
  /\ variant = "styled" => ~chat_loading
  /\ chat_question' = t
  /\ ev' = [op |-> "chat.onChange"]
  /\ UNCHANGED <<variant, mounted, summaryVars, planVars, formVars, chat_loading, chat_answer, chat_sources,
                 chat_error, chat_flows, chat_done, chat_issued>>

\* body of onAsk up to its await
OnAsk(via) ==
  IF variant = "styled" /\ (IsBlank(chat_question) \/ chat_loading)
  THEN /\ ev' = [op |-> "chat.onAsk", via |-> via, n |-> 0]
       /\ UNCHANGED <<variant, mounted, summaryVars, planVars, formVars, chatVars>>
  ELSE /\ chat_issued < MaxFlows
       /\ chat_issued' = chat_issued + 1
       /\ chat_loading' = TRUE
       /\ chat_error' = Null
       /\ chat_answer' = Null
       /\ chat_sources' = <<>>
       /\ chat_flows' = chat_flows \cup
            {[n |-> chat_issued + 1, question |-> chat_question, pc |-> "chat"]}
       /\ ev' = [op |-> "chat.onAsk", via |-> via, n |-> chat_issued + 1]
       /\ UNCHANGED <<variant, mounted, summaryVars, planVars, formVars, chat_question, chat_done>>

\* click on the ask button
ChatClick ==
  /\ ChatMounted
  /\ ~ChatButtonDisabled
  /\ OnAsk("click")

\* handleKeyPress: Enter without Shift in the textarea (styled version only);
\* a disabled textarea receives no key events
ChatEnter ==
  /\ ChatMounted
  /\ variant = "styled"
  /\ ~chat_loading
  /\ OnAsk("enter")

\* an invocation ends: what it wrote into the panel
ChatFinish(f, kind, answer, sources, error) ==
  chat_done' = chat_done \cup
    {[n |-> f.n, kind |-> kind, answer |-> answer, sources |-> sources,
      error |-> error]}

\* chat({question}) resolves
ChatOk(f, res) ==
  /\ f \in chat_flows
  /\ chat_answer' = Some(res.answer)
  /\ chat_sources' = OrObject(res.sources, <<>>)
  /\ chat_loading' = FALSE
  /\ chat_flows' = chat_flows \ {f}
  /\ UNCHANGED <<variant, mounted, summaryVars, planVars, formVars, chat_question, chat_error, chat_issued>>
  /\ ChatFinish(f, "answered", chat_answer', chat_sources', Null)
  /\ ev' = [op |-> "chat.ok", n |-> f.n, res |-> res]

\* chat({question}) rejects
ChatFailMutRetry(f, detail) ==
  /\ f \in chat_flows
  /\ chat_error' = Some(ErrorMessage(detail, ChatFallback))
  /\ chat_loading' = FALSE
  /\ chat_flows' = chat_flows
  /\ UNCHANGED <<variant, mounted, summaryVars, planVars, formVars, chat_question, chat_answer, chat_sources,
                 chat_issued>>
  /\ ChatFinish(f, "failed", Null, <<>>, chat_error')
  /\ ev' = [op |-> "chat.fail", call |-> "chat", n |-> f.n, detail |-> detail]
ChatFail(f, detail) ==
  /\ f \in chat_flows
  /\ chat_error' = Some(ErrorMessage(detail, ChatFallback))
  /\ chat_loading' = FALSE
  /\ chat_flows' = chat_flows \ {f}
  /\ UNCHANGED <<variant, mounted, summaryVars, planVars, formVars, chat_question, chat_answer, chat_sources,
                 chat_issued>>
  /\ ChatFinish(f, "failed", Null, <<>>, chat_error')
  /\ ev' = [op |-> "chat.fail", call |-> "chat", n |-> f.n, detail |-> detail]

\* ----------------------------------------------------- Patient Form and App

FormMounted == mounted \in {"form", "all"}

SubForms == {"comorbidities", "geneticMarkers", "lifestyle", "currentMedications"}

EmptyMap == [k \in {} |-> ""]

\* the initial Patient of useState and the literal handleSubmit resets to
InitialPatient ==
  [patientId |-> <<>>, age |-> 0, gender |-> <<>>, primaryCondition |-> <<>>,
   comorbidities |-> <<>>, geneticMarkers |-> EmptyMap, lifestyle |-> EmptyMap,
   currentMedications |-> <<>>]

EmptyMedication == [name |-> <<>>, dosage |-> "", adherence |-> ""]

CreateFallback == "Failed to save patient. Please try again."

\* Array.from(new Set([...list, value]))
DedupMutKeepAll(list) == list
RECURSIVE Dedup(_)
Dedup(list) ==
  IF list = <<>> THEN <<>>
  ELSE LET init == Dedup(SubSeq(list, 1, Len(list) - 1))
           last == list[Len(list)]
       IN IF \E i \in DOMAIN init : init[i] = last THEN init ELSE Append(init, last)

\* list.filter((_, i) => i !== index), index counted from 1
RemoveAtMutLast(list, index) ==
  IF list = <<>> THEN <<>> ELSE SubSeq(list, 1, Len(list) - 1)
RECURSIVE RemoveAt(_, _)
RemoveAt(list, index) ==
  IF list = <<>> THEN <<>>
  ELSE IF index = 1 THEN Tail(list)
  ELSE <<Head(list)>> \o RemoveAt(Tail(list), index - 1)

\* { ...map, [key]: value }
UpsertMutKeepFirst(map, key, value) ==
  [k \in DOMAIN map \cup {key} |-> IF k \in DOMAIN map THEN map[k] ELSE value]
Upsert(map, key, value) ==
  [k \in DOMAIN map \cup {key} |-> IF k = key THEN value ELSE map[k]]

\* map[key], absent when the map has no such key
Lookup(map, key) == IF key \in DOMAIN map THEN Some(map[key]) ELSE Null

\* const { [key]: removed, ...rest } = map
Without(map, key) == [k \in DOMAIN map \ {key} |-> map[k]]

FormInit ==
  /\ editing \in IF FormMounted THEN SubForms ELSE {"none"}
  /\ form_patient = InitialPatient
  /\ form_comorbidityInput = <<>>
  /\ form_markerKey = <<>>
  /\ form_markerValue = ""
  /\ form_lifeKey = <<>>
  /\ form_lifeValue = ""
  /\ form_med = EmptyMedication
  /\ form_loading = FALSE
  /\ form_flows = {}
  /\ form_issued = 0
  /\ app_toast = Null
  /\ app_toastType = "success"
  /\ app_toastSeq = 0
  /\ app_timers = {}

formBuffers ==
  <<form_comorbidityInput, form_markerKey, form_markerValue, form_lifeKey,
    form_lifeValue, form_med>>

formRequest == <<form_loading, form_flows, form_issued>>

appVars == <<app_toast, app_toastType, app_toastSeq, app_timers>>

formFrame == <<variant, mounted, summaryVars, planVars, chatVars, editing>>

\* onChange of patientId, age, gender, primaryCondition
FormSetField(field, value) ==
  /\ FormMounted
  /\ form_patient' = [form_patient EXCEPT ![field] = value]
  /\ ev' = [op |-> "form.onChange"]
  /\ UNCHANGED <<formFrame, formBuffers, formRequest, appVars>>

\* typing into the comorbidity input
FormSetComorbidityInput(t) ==
  /\ FormMounted /\ editing = "comorbidities"
  /\ form_comorbidityInput' = t
  /\ ev' = [op |-> "form.onChange"]
  /\ UNCHANGED <<formFrame, form_patient, form_markerKey, form_markerValue,
                 form_lifeKey, form_lifeValue, form_med, formRequest, appVars>>

\* addComorbidity, by the Add button or Enter in the input
addComorbidity ==
  /\ FormMounted /\ editing = "comorbidities"
  /\ LET value == Trim(form_comorbidityInput) IN
       IF value = <<>>
       THEN /\ form_patient' = form_patient
            /\ form_comorbidityInput' =
                 IF variant = "styled" THEN form_comorbidityInput ELSE <<>>
       ELSE /\ form_patient' =
                 [form_patient EXCEPT
                    !.comorbidities = Dedup(Append(form_patient.comorbidities, value))]
            /\ form_comorbidityInput' = <<>>
  /\ ev' = [op |-> "form.addComorbidity", input |-> form_comorbidityInput]
  /\ UNCHANGED <<formFrame, form_markerKey, form_markerValue, form_lifeKey,
                 form_lifeValue, form_med, formRequest, appVars>>

\* list[index], absent when the list has no such position
At(list, index) == IF index \in DOMAIN list THEN Some(list[index]) ELSE Null

\* removeComorbidity(index): the X button of a chip (styled version only).  The
\* index is the one the button was rendered with: the chips stay on screen
\* while their container animates out, so it may be stale.
removeComorbidity(index) ==
  /\ FormMounted /\ variant = "styled"
  /\ form_patient' =
       [form_patient EXCEPT !.comorbidities = RemoveAt(form_patient.comorbidities, index)]
  /\ ev' = [op |-> "form.removeComorbidity", index |-> index,
            removed |-> At(form_patient.comorbidities, index)]
  /\ UNCHANGED <<formFrame, formBuffers, formRequest, appVars>>

FormSetMarkerKey(t) ==
  /\ FormMounted /\ editing = "geneticMarkers"
  /\ form_markerKey' = t
  /\ ev' = [op |-> "form.onChange"]
  /\ UNCHANGED <<formFrame, form_patient, form_comorbidityInput, form_markerValue,
                 form_lifeKey, form_lifeValue, form_med, formRequest, appVars>>

FormSetMarkerValue(v) ==
  /\ FormMounted /\ editing = "geneticMarkers"
  /\ form_markerValue' = v
  /\ ev' = [op |-> "form.onChange"]
  /\ UNCHANGED <<formFrame, form_patient, form_comorbidityInput, form_markerKey,
                 form_lifeKey, form_lifeValue, form_med, formRequest, appVars>>

addMarker ==
  /\ FormMounted /\ editing = "geneticMarkers"
  /\ IF IsBlank(form_markerKey)
     THEN UNCHANGED <<form_patient, form_markerKey, form_markerValue>>
     ELSE /\ form_patient' =
               [form_patient EXCEPT
                  !.geneticMarkers =
                     Upsert(form_patient.geneticMarkers, Trim(form_markerKey),
                            form_markerValue)]
          /\ form_markerKey' = <<>>
          /\ form_markerValue' = ""
  /\ ev' = [op |-> "form.addMarker", key |-> form_markerKey, value |-> form_markerValue,
            old |-> Lookup(form_patient.geneticMarkers, Trim(form_markerKey))]
  /\ UNCHANGED <<formFrame, form_comorbidityInput, form_lifeKey, form_lifeValue,
                 form_med, formRequest, appVars>>

\* removeMarker(key): the trash button of an entry (styled version only)
removeMarker(key) ==
  /\ FormMounted /\ variant = "styled"
  /\ key \in DOMAIN form_patient.geneticMarkers
  /\ form_patient' =
       [form_patient EXCEPT !.geneticMarkers = Without(form_patient.geneticMarkers, key)]
  /\ ev' = [op |-> "form.removeMarker", key |-> key]
  /\ UNCHANGED <<formFrame, formBuffers, formRequest, appVars>>

FormSetLifeKey(t) ==
  /\ FormMounted /\ editing = "lifestyle"
  /\ form_lifeKey' = t
  /\ ev' = [op |-> "form.onChange"]
  /\ UNCHANGED <<formFrame, form_patient, form_comorbidityInput, form_markerKey,
                 form_markerValue, form_lifeValue, form_med, formRequest, appVars>>

FormSetLifeValue(v) ==
  /\ FormMounted /\ editing = "lifestyle"
  /\ form_lifeValue' = v
  /\ ev' = [op |-> "form.onChange"]
  /\ UNCHANGED <<formFrame, form_patient, form_comorbidityInput, form_markerKey,
                 form_markerValue, form_lifeKey, form_med, formRequest, appVars>>

addLifestyle ==
  /\ FormMounted /\ editing = "lifestyle"
  /\ IF IsBlank(form_lifeKey)
     THEN UNCHANGED <<form_patient, form_lifeKey, form_lifeValue>>
     ELSE /\ form_patient' =
               [form_patient EXCEPT
                  !.lifestyle =
                     Upsert(form_patient.lifestyle, Trim(form_lifeKey), form_lifeValue)]
          /\ form_lifeKey' = <<>>
          /\ form_lifeValue' = ""
  /\ ev' = [op |-> "form.addLifestyle", key |-> form_lifeKey, value |-> form_lifeValue,
            old |-> Lookup(form_patient.lifestyle, Trim(form_lifeKey))]
  /\ UNCHANGED <<formFrame, form_comorbidityInput, form_markerKey, form_markerValue,
                 form_med, formRequest, appVars>>

\* removeLifestyle(key): the trash button of an entry (styled version only)
removeLifestyle(key) ==
  /\ FormMounted /\ variant = "styled"
  /\ key \in DOMAIN form_patient.lifestyle
  /\ form_patient' =
       [form_patient EXCEPT !.lifestyle = Without(form_patient.lifestyle, key)]
  /\ ev' = [op |-> "form.removeLifestyle", key |-> key]
  /\ UNCHANGED <<formFrame, formBuffers, formRequest, appVars>>

\* onChange of the medication name
FormSetMedName(t) ==
  /\ FormMounted /\ editing = "currentMedications"
  /\ form_med' = [form_med EXCEPT !.name = t]
  /\ ev' = [op |-> "form.onChange"]
  /\ UNCHANGED <<formFrame, form_patient, form_comorbidityInput, form_markerKey,
                 form_markerValue, form_lifeKey, form_lifeValue, formRequest, appVars>>

\* onChange of the medication dosage or adherence
FormSetMedDetail(field, v) ==
  /\ FormMounted /\ editing = "currentMedications"
  /\ form_med' = [form_med EXCEPT ![field] = v]
  /\ ev' = [op |-> "form.onChange"]
  /\ UNCHANGED <<formFrame, form_patient, form_comorbidityInput, form_markerKey,
                 form_markerValue, form_lifeKey, form_lifeValue, formRequest, appVars>>

\* [...p.currentMedications, med]
AppendMedicationMutDedup(list, m) ==
  IF \E i \in DOMAIN list : list[i] = m THEN list ELSE Append(list, m)
AppendMedication(list, m) == Append(list, m)

addMedication ==
  /\ FormMounted /\ editing = "currentMedications"
  /\ IF IsBlank(form_med.name)
     THEN UNCHANGED <<form_patient, form_med>>
     ELSE /\ Len(form_patient.currentMedications) < MaxMeds
          /\ form_patient' =
               [form_patient EXCEPT
                  !.currentMedications =
                     AppendMedication(form_patient.currentMedications, form_med)]
          /\ form_med' = EmptyMedication
  /\ ev' = [op |-> "form.addMedication", med |-> form_med]
  /\ UNCHANGED <<formFrame, form_comorbidityInput, form_markerKey, form_markerValue,
                 form_lifeKey, form_lifeValue, formRequest, appVars>>

\* removeMedication(index): the trash button of a row (styled version only);
\* the index may be stale, as for removeComorbidity
removeMedication(index) ==
  /\ FormMounted /\ variant = "styled"
  /\ form_patient' =
       [form_patient EXCEPT
          !.currentMedications = RemoveAt(form_patient.currentMedications, index)]
  /\ ev' = [op |-> "form.removeMedication", index |-> index,
            removed |-> At(form_patient.currentMedications, index)]
  /\ UNCHANGED <<formFrame, formBuffers, formRequest, appVars>>

\* what lets a submit event reach handleSubmit.  Styled: the Save button is a
\* plain button outside any <form>, its onClick is handleSubmit, it is disabled
\* while loading.  Plain: the <form>'s onSubmit, after the browser's constraint
\* validation of the `required` inputs, whose values are patientId,
\* String(age), gender and primaryCondition; the button is disabled while loading.
SubmitReachesHandler ==
  /\ ~form_loading
  /\ variant = "plain" =>
       /\ form_patient.patientId # <<>>
       /\ form_patient.gender # <<>>
       /\ form_patient.primaryCondition # <<>>

\* handleSubmit up to `await onCreate(patient)`; App.handleCreate calls
\* createPatient(patient)
handleSubmit ==
  /\ FormMounted
  /\ SubmitReachesHandler
  /\ form_issued < MaxSubmits
  /\ form_issued' = form_issued + 1
  /\ form_loading' = TRUE
  /\ form_flows' = form_flows \cup {[n |-> form_issued + 1, patient |-> form_patient]}
  /\ ev' = [op |-> "form.handleSubmit", n |-> form_issued + 1]
  /\ UNCHANGED <<formFrame, form_patient, formBuffers, appVars>>

\* showToast(message, type): no pending timer is cancelled
showToastMutNoTimer(message, type) ==
  /\ app_toast' = Some(message)
  /\ app_toastType' = type
  /\ app_toastSeq' = app_toastSeq + 1
  /\ app_timers' = app_timers
showToast(message, type) ==
  /\ app_toast' = Some(message)
  /\ app_toastType' = type
  /\ app_toastSeq' = app_toastSeq + 1
  /\ app_timers' = app_timers \cup {app_toastSeq + 1}

\* the draft handleSubmit leaves once `await onCreate(patient)` has returned
DraftAfterCreateMutKeepLists(draft) ==
  [draft EXCEPT !.patientId = <<>>, !.age = 0, !.gender = <<>>,
                !.primaryCondition = <<>>]
DraftAfterCreate(draft) == InitialPatient

\* `loading` once `await onCreate(patient)` is over: the finally block releases
\* it whether the try block completed or threw
LoadingAfterCreateMutTryOnly(ok) == ~ok
LoadingAfterCreate(ok) == FALSE

\* createPatient resolves: handleCreate shows the success toast and returns,
\* handleSubmit resets the draft and releases loading.  The message is the
\* template of App.tsx:41 without its leading emoji (the module is ASCII).
CreatePatientOk(f, res) ==
  /\ f \in form_flows
  /\ showToast("Successfully saved patient: " \o res.patientId, "success")
  /\ form_patient' = DraftAfterCreate(form_patient)
  /\ form_loading' = LoadingAfterCreate(TRUE)
  /\ form_flows' = form_flows \ {f}
  /\ ev' = [op |-> "form.createPatient.ok", n |-> f.n, submitted |-> f.patient,
            edited |-> form_patient # f.patient]
  /\ UNCHANGED <<formFrame, formBuffers, form_issued>>

\* createPatient rejects: handleCreate catches, shows the error toast and returns
\* normally, so handleSubmit continues exactly as after a success
CreatePatientFail(f, detail) ==
  /\ f \in form_flows
  /\ showToast(ErrorMessage(detail, CreateFallback), "error")
  /\ form_patient' = DraftAfterCreate(form_patient)
  /\ form_loading' = LoadingAfterCreate(FALSE)
  /\ form_flows' = form_flows \ {f}
  /\ ev' = [op |-> "form.fail", call |-> "createPatient", n |-> f.n,
            detail |-> detail, submitted |-> f.patient,
            edited |-> form_patient # f.patient]
  /\ UNCHANGED <<formFrame, formBuffers, form_issued>>

\* the toast on display: the number of the showToast call that set it, 0 if none
ToastOnDisplay == IF IsNull(app_toast) THEN 0 ELSE app_toastSeq

\* the setTimeout(() => setToast(null)) callback scheduled by showToast call t runs
ToastTimeout(t) ==
  /\ FormMounted
  /\ t \in app_timers
  /\ app_timers' = app_timers \ {t}
  /\ app_toast' = Null
  /\ ev' = [op |-> "app.toastTimeout", timer |-> t, cleared |-> ToastOnDisplay]
  /\ UNCHANGED <<formFrame, form_patient, formBuffers, formRequest, app_toastType,
                 app_toastSeq>>

\* the close button of the toast
ToastClose ==
  /\ FormMounted
  /\ ~IsNull(app_toast)
  /\ app_toast' = Null
  /\ ev' = [op |-> "app.toastClose"]
  /\ UNCHANGED <<formFrame, form_patient, formBuffers, formRequest, app_toastType,
                 app_toastSeq, app_timers>>

\* ------------------------------------------------------------ specification

Components == {"summary", "plan", "chat", "form"}

Init ==
  /\ variant \in Variants
  /\ mounted \in Components
  /\ ev = [op |-> "mount"]
  /\ SummaryInit
  /\ PlanInit
  /\ ChatInit
  /\ FormInit

NextSummary ==
  \/ \E t \in IdTexts : SummarySetPatientId(t)
  \/ SummaryClick
  \/ SummaryEnter
  \/ \E f \in summary_flows, rec \in PatientRecords, now \in Times :
       SummaryGetPatientOk(f, rec, now)
  \/ \E f \in summary_flows, res \in SummarizeResponses, now \in Times :
       SummarizeOk(f, res, now)
  \/ \E f \in summary_flows, d \in Details : SummaryCallFail(f, d)

NextPlan ==
  \/ \E t \in IdTexts : PlanSetPatientId(t)
  \/ PlanClick
  \/ PlanEnter
  \/ handleRegenerate
  \/ \E f \in plan_flows, existing \in PlanResponses : PlanGetPlanOk(f, existing)
  \/ \E f \in plan_flows : PlanDelayElapsed(f)
  \/ \E f \in plan_flows, res \in PlanResponses : PlanGenerateOk(f, res)
  \/ \E f \in plan_flows, d \in Details : PlanCallFail(f, d)

NextChat ==
  \/ \E t \in QuestionTexts : ChatSetQuestion(t)
  \/ ChatClick
  \/ ChatEnter
  \/ \E f \in chat_flows, res \in ChatResponses : ChatOk(f, res)
  \/ \E f \in chat_flows, d \in Details : ChatFail(f, d)

\* editing of the basic fields, shared by the two specifications of the form
NextFormFields ==
  \/ \E field \in {"patientId", "gender", "primaryCondition"}, t \in FieldTexts :
       FormSetField(field, t)
  \/ \E a \in Ages : FormSetField("age", a)

\* the submit life cycle of the form, with a small draft
NextForm ==
  \/ NextFormFields
  \/ \E t \in SubmitComorbidityTexts : FormSetComorbidityInput(t)
  \/ addComorbidity
  \/ \E t \in SubmitKeyTexts : FormSetMarkerKey(t)
  \/ \E v \in ValueTexts : FormSetMarkerValue(v)
  \/ addMarker
  \/ \E t \in SubmitKeyTexts : FormSetLifeKey(t)
  \/ \E v \in ValueTexts : FormSetLifeValue(v)
  \/ addLifestyle
  \/ \E t \in SubmitMedNames : FormSetMedName(t)
  \/ addMedication
  \/ form_issued < MaxDraftSubmits /\ handleSubmit
  \/ \E f \in form_flows, res \in CreateResponses : CreatePatientOk(f, res)
  \/ \E f \in form_flows, d \in Details : CreatePatientFail(f, d)
  \/ \E t \in app_timers : ToastTimeout(t)
  \/ ToastClose

\* editing of the draft's collections, without submit
NextFormEdit ==
  \/ NextFormFields
  \/ \E t \in ComorbidityTexts : FormSetComorbidityInput(t)
  \/ addComorbidity
  \/ \E i \in 1..MaxItems : removeComorbidity(i)
  \/ \E t \in KeyTexts : FormSetMarkerKey(t)
  \/ \E v \in ValueTexts : FormSetMarkerValue(v)
  \/ addMarker
  \/ \E k \in KeyTexts : removeMarker(k)
  \/ \E t \in KeyTexts : FormSetLifeKey(t)
  \/ \E v \in ValueTexts : FormSetLifeValue(v)
  \/ addLifestyle
  \/ \E k \in KeyTexts : removeLifestyle(k)
  \/ \E t \in MedNames : FormSetMedName(t)
  \/ \E field \in {"dosage", "adherence"}, v \in ValueTexts : FormSetMedDetail(field, v)
  \/ addMedication
  \/ \E i \in 1..MaxItems : removeMedication(i)

Next ==
  \/ NextSummary
  \/ NextPlan
  \/ NextChat
  \/ NextForm

\* every component, one mounted per run
Spec == Init /\ [][Next]_vars

\* one component alone
InitSummary == Init /\ SummaryMounted
InitPlan == Init /\ PlanMounted
InitChat == Init /\ ChatMounted
InitForm == Init /\ FormMounted

SpecSummary == InitSummary /\ [][NextSummary]_vars
SpecPlan == InitPlan /\ [][NextPlan]_vars
SpecChat == InitChat /\ [][NextChat]_vars
SpecForm == InitForm /\ [][NextForm]_vars
SpecFormEdit == InitForm /\ [][NextFormEdit]_vars

\* the four panels as App renders them, all at once; each runs one attempt
InitPanels ==
  /\ variant \in Variants
  /\ mounted = "all"
  /\ ev = [op |-> "mount"]
  /\ SummaryInit
  /\ PlanInit
  /\ ChatInit
  /\ FormInit
  /\ editing = "comorbidities"

NextPanels ==
  \/ SummarySetPatientId(<<"P">>)
  \/ summary_issued = 0 /\ SummaryClick
  \/ \E f \in summary_flows, now \in Times : SummaryGetPatientOk(f, RecStored, now)
  \/ \E f \in summary_flows : SummaryCallFail(f, Null)
  \/ PlanSetPatientId(<<"P">>)
  \/ plan_issued = 0 /\ PlanClick
  \/ \E f \in plan_flows : PlanGetPlanOk(f, [plan |-> Some(<<ItemDosage>>)])
  \/ \E f \in plan_flows : PlanCallFail(f, Null)
  \/ ChatSetQuestion(<<"X">>)
  \/ chat_issued = 0 /\ ChatClick
  \/ \E f \in chat_flows, res \in ChatResponses : ChatOk(f, res)
  \/ \E f \in chat_flows : ChatFail(f, Null)
  \/ FormSetField("patientId", <<"P">>)
  \/ form_issued = 0 /\ handleSubmit
  \/ \E f \in form_flows, res \in CreateResponses : CreatePatientOk(f, res)
  \/ \E f \in form_flows : CreatePatientFail(f, Null)
  \/ \E t \in app_timers : ToastTimeout(t)
  \/ ToastClose

SpecPanels == InitPanels /\ [][NextPanels]_vars

\* the two panels that fetch before they generate, one mounted per run
InitFetch == Init /\ (SummaryMounted \/ PlanMounted)
NextFetch == NextSummary \/ NextPlan
SpecFetch == InitFetch /\ [][NextFetch]_vars

\* the form and the toast of App over several submits of drafts that hold the
\* basic fields only
InitToast == InitForm /\ editing = "comorbidities"

NextToast ==
  \/ NextFormFields
  \/ handleSubmit
  \/ \E f \in form_flows, res \in CreateResponses : CreatePatientOk(f, res)
  \/ \E f \in form_flows, d \in Details : CreatePatientFail(f, d)
  \/ \E t \in app_timers : ToastTimeout(t)
  \/ ToastClose

SpecToast == InitToast /\ [][NextToast]_vars

\* every component with its remote calls, one mounted per run; the form with
\* drafts that hold the basic fields only
InitCalls == Init /\ (FormMounted => editing = "comorbidities")
NextCalls == NextSummary \/ NextPlan \/ NextChat \/ NextToast
SpecCalls == InitCalls /\ [][NextCalls]_vars

\* a scheduled setTimeout callback runs after its delay, whatever else happens
FairToast == \A t \in 1..MaxSubmits : WF_vars(ToastTimeout(t))

SpecToastLive == SpecToast /\ FairToast

\* every issued remote call settles, and the timer of the styled Plan panel
\* fires: the steps that answer the pending calls of a component
SettleSummary ==
  \/ \E f \in summary_flows, rec \in PatientRecords, now \in Times :
       SummaryGetPatientOk(f, rec, now)
  \/ \E f \in summary_flows, res \in SummarizeResponses, now \in Times :
       SummarizeOk(f, res, now)
  \/ \E f \in summary_flows, d \in Details : SummaryCallFail(f, d)

SettlePlan ==
  \/ \E f \in plan_flows, existing \in PlanResponses : PlanGetPlanOk(f, existing)
  \/ \E f \in plan_flows : PlanDelayElapsed(f)
  \/ \E f \in plan_flows, res \in PlanResponses : PlanGenerateOk(f, res)
  \/ \E f \in plan_flows, d \in Details : PlanCallFail(f, d)

SettleChat ==
  \/ \E f \in chat_flows, res \in ChatResponses : ChatOk(f, res)
  \/ \E f \in chat_flows, d \in Details : ChatFail(f, d)

SettleForm ==
  \/ \E f \in form_flows, res \in CreateResponses : CreatePatientOk(f, res)
  \/ \E f \in form_flows, d \in Details : CreatePatientFail(f, d)

FairCalls ==
  /\ WF_vars(SettleSummary)
  /\ WF_vars(SettlePlan)
  /\ WF_vars(SettleChat)
  /\ WF_vars(SettleForm)

\* every component, under the assumption that every call settles
SpecLive == Spec /\ FairCalls

\* ------------------------------------------------------------------ claims

\* the empty Patient, written out
EmptyDraft ==
  [patientId |-> <<>>, age |-> 0, gender |-> <<>>, primaryCondition |-> <<>>,
   comorbidities |-> <<>>, geneticMarkers |-> [k \in {} |-> ""],
   lifestyle |-> [k \in {} |-> ""], currentMedications |-> <<>>]

\* C1: when createPatient rejects, the draft after the submit has settled is the
\* draft that was submitted: the failure does not reset it.
C1_FailedSubmitKeepsDraft ==
  (ev.op = "form.fail" /\ ~ev.edited) => form_patient = ev.submitted

\* C2: when createPatient resolves, the draft after the submit has settled is the
\* empty Patient, whatever was submitted and whatever was edited while the
\* request was pending.
C2_SuccessfulSubmitResetsDraft ==
  ev.op = "form.createPatient.ok" => form_patient = EmptyDraft

\* a successful submit of a filled draft that was edited while pending
C2_Witness ==
  /\ ev.op = "form.createPatient.ok"
  /\ ev.submitted.patientId # <<>>
  /\ ev.submitted.comorbidities # <<>>
  /\ ev.edited
  /\ form_patient = EmptyDraft

\* the required fields of a draft are present
RequiredPresent(p) ==
  /\ p.patientId # <<>>
  /\ p.age # 0
  /\ p.gender # <<>>
  /\ p.primaryCondition # <<>>

\* C3: a submit of a draft that misses a required field sets no submitting
\* flag and issues no createPatient: every request in flight carries a draft
\* whose patientId, age, gender and primaryCondition are present.
C3_SubmitGuardedByRequiredFields ==
  /\ \A f \in form_flows : RequiredPresent(f.patient)
  /\ ev.op = "form.handleSubmit" => RequiredPresent(form_patient)

\* the fetched record carries a completed summary, as each version tests it
CarriesSummary(rec) ==
  IF variant = "styled"
  THEN rec.summaryData # Null
  ELSE rec.summary \notin {Null, Some("")} /\ rec.similarSymptoms # Null

\* the panel shows the summary stored in the record
ShowsStored(rec) ==
  IF variant = "styled"
  THEN /\ summary_summaryData # Null
       /\ Val(rec.summaryData).summary # Null =>
            Val(summary_summaryData).summary = Val(Val(rec.summaryData).summary)
  ELSE /\ summary_summary = rec.summary
       /\ summary_symptoms = Val(rec.similarSymptoms)

\* C4: when getPatient returns a record that carries a completed summary, the
\* panel adopts that summary and the invocation ends there, having called
\* getPatient exactly once and summarizePatient not at all.
C4_SummaryReadThrough ==
  /\ (ev.op = "summary.getPatient.ok" /\ CarriesSummary(ev.rec)) =>
       /\ ShowsStored(ev.rec)
       /\ \A f \in summary_flows : f.n # ev.n
       /\ \E d \in summary_done : d.n = ev.n /\ d.nGet = 1 /\ d.nGen = 0
  /\ \A d \in summary_done : d.kind = "stored" => d.nGet = 1 /\ d.nGen = 0

\* a stored summary was adopted, in each version
C4_Witness ==
  /\ ev.op = "summary.getPatient.ok"
  /\ CarriesSummary(ev.rec)
  /\ ShowsStored(ev.rec)
  /\ ~summary_loading
  /\ \E d \in summary_done : d.n = ev.n /\ d.kind = "stored" /\ d.nGen = 0

\* the fetched plan is missing or empty
PlanMissingOrEmpty(existing) == existing.plan = Null \/ existing.plan = Some(<<>>)

\* C5: an invocation of the plan panel calls getPlan once and generatePlan at
\* most once; it calls generatePlan exactly when getPlan succeeded with a
\* missing or empty plan, and when the fetched plan is non-empty that plan is
\* the one displayed.
C5_PlanReadThrough ==
  /\ \A f \in plan_flows \cup plan_done :
       /\ f.nGet = 1
       /\ f.nGen \in {0, 1}
       /\ f.nGen = 1 => f.existing # Null /\ PlanMissingOrEmpty(Val(f.existing))
  /\ \A d \in plan_done :
       d.nGen = 1 <=> (d.existing # Null /\ PlanMissingOrEmpty(Val(d.existing)))
  /\ (ev.op = "plan.getPlan.ok" /\ ~PlanMissingOrEmpty(ev.existing)) =>
       /\ plan_plan = Val(ev.existing.plan)
       /\ \A f \in plan_flows : f.n # ev.n

\* one invocation adopted a stored plan, another generated after an empty one
C5_Witness ==
  /\ \E d \in plan_done :
       d.kind = "stored" /\ d.nGen = 0 /\ Len(d.plan) > 0
  /\ \E d \in plan_done :
       d.kind = "generated" /\ d.nGen = 1 /\ PlanMissingOrEmpty(Val(d.existing))

\* C6: a panel has at most one request flow in flight at any time.
C6_NoDoubleSubmission ==
  /\ Cardinality(summary_flows) <= 1
  /\ Cardinality(plan_flows) <= 1
  /\ Cardinality(chat_flows) <= 1

\* the last event is the end of an invocation, and none is left in flight
SummarySettled ==
  /\ ev.op \in {"summary.getPatient.ok", "summary.summarizePatient.ok", "summary.fail"}
  /\ summary_flows = {}
PlanSettled ==
  /\ ev.op \in {"plan.getPlan.ok", "plan.generatePlan.ok", "plan.fail"}
  /\ plan_flows = {}
ChatSettled ==
  /\ ev.op \in {"chat.ok", "chat.fail"}
  /\ chat_flows = {}

\* C7: once every invocation of a panel has ended, the panel holds the outcome
\* of the invocation that was started last, and nothing of an earlier one.
C7_LatestOutcomeHeld ==
  /\ SummarySettled =>
       \E d \in summary_done :
         /\ d.n = summary_issued
         /\ summary_summaryData = d.summaryData
         /\ summary_summary = d.summary
         /\ summary_symptoms = d.symptoms
         /\ summary_error = d.error
  /\ PlanSettled =>
       \E d \in plan_done :
         /\ d.n = plan_issued
         /\ plan_plan = d.plan
         /\ plan_error = d.error
  /\ ChatSettled =>
       \E d \in chat_done :
         /\ d.n = chat_issued
         /\ chat_answer = d.answer
         /\ chat_sources = d.sources
         /\ chat_error = d.error

\* C8: while the identifier of the Summary or Plan panel is empty or only
\* whitespace, the panel's button is disabled and no call is issued for it.
C8_BlankIdIssuesNoCall ==
  /\ IsBlank(summary_patientId) => SummaryButtonDisabled
  /\ IsBlank(plan_patientId) => PlanButtonDisabled
  /\ \A f \in summary_flows \cup plan_flows : ~IsBlank(f.id)

\* C9: whenever a generate action of the Summary panel has settled, exactly one
\* of summaryData and error is non-null.
C9_SummaryResultXorError ==
  (variant = "styled" /\ summary_issued > 0 /\ ~summary_loading) =>
    (summary_summaryData # Null) # (summary_error # Null)

\* the rejections the components handle, the message each displays, and the
\* fallback of each call site
FailOps == {"summary.fail", "plan.fail", "chat.fail", "form.fail"}

ShownMessage ==
  CASE ev.op = "summary.fail" -> summary_error
    [] ev.op = "plan.fail" -> plan_error
    [] ev.op = "chat.fail" -> chat_error
    [] ev.op = "form.fail" -> app_toast

FallbackAt ==
  CASE ev.op = "summary.fail" -> SummaryFallback
    [] ev.op = "plan.fail" -> PlanFallback
    [] ev.op = "chat.fail" -> ChatFallback
    [] ev.op = "form.fail" -> CreateFallback

\* C10 (as stated): the message displayed for a rejection is its detail string
\* whenever it carries one, and the call site's fallback when it carries none.
C10_DetailVerbatim ==
  ev.op \in FailOps =>
    ShownMessage = Some(IF ev.detail # Null THEN Val(ev.detail) ELSE FallbackAt)

\* C10 (amended): the message displayed for a rejection is its detail string
\* whenever that string is non-empty, and the call site's fallback when the
\* detail is absent or the empty string.
C10_NonEmptyDetailVerbatim ==
  ev.op \in FailOps =>
    ShownMessage =
      Some(IF ev.detail \notin {Null, Some("")} THEN Val(ev.detail) ELSE FallbackAt)

\* a rejection with a detail, displayed verbatim
C10_Witness ==
  /\ ev.op = "summary.fail"
  /\ ev.detail = Some("Patient not found")
  /\ summary_error = Some("Patient not found")

\* C11: the form's loading flag is true once Submit has started and false once
\* the createPatient call has completed, whether it resolved or rejected; it is
\* true exactly while a createPatient call is pending.
C11_SubmittingFlagReleased ==
  /\ ev.op = "form.handleSubmit" => form_loading
  /\ ev.op \in {"form.createPatient.ok", "form.fail"} => ~form_loading
  /\ form_loading <=> form_flows # {}

\* a rejected createPatient has completed and the flag is released
C11_Witness ==
  /\ ev.op = "form.fail"
  /\ ev.detail = Some("Patient not found")
  /\ form_issued = 1
  /\ ~form_loading

\* number of occurrences of a value in a list
Occurrences(v, list) == Cardinality({i \in DOMAIN list : list[i] = v})

\* C12: an add of a blank or whitespace-only comorbidity input leaves the list
\* unchanged; an add of a non-blank input leaves exactly one occurrence of the
\* trimmed value in the list, whether or not the list held it before (values
\* that differ in case are different values), and the other entries stay as
\* they were.
C12_AddComorbidityDedup ==
  [][ev'.op = "form.addComorbidity" =>
       LET v == Trim(form_comorbidityInput)
           before == form_patient.comorbidities
           after == form_patient'.comorbidities
       IN IF v = <<>>
          THEN after = before
          ELSE /\ Occurrences(v, after) = 1
               /\ Occurrences(v, before) = 1 => after = before
               /\ Occurrences(v, before) = 0 => after = Append(before, v)]_vars

\* a value the list already held was added again: the list keeps both of its
\* entries, the value once
C12_Witness ==
  /\ ev.op = "form.addComorbidity"
  /\ Len(form_patient.comorbidities) = 2
  /\ Trim(ev.input) = form_patient.comorbidities[1]
  /\ Occurrences(Trim(ev.input), form_patient.comorbidities) = 1

\* the map after an upsert of key with value: every other entry as it was, one
\* entry for key, holding value
IsUpsertOf(after, before, key, value) ==
  /\ DOMAIN after = DOMAIN before \cup {key}
  /\ after[key] = value
  /\ \A k \in DOMAIN before : k # key => after[k] = before[k]

\* C13: add marker and add lifestyle with a blank key change neither the map
\* nor the key and value buffers; with a non-blank key they leave one entry for
\* the trimmed key, holding the value just entered (whatever the key held
\* before), leave the other entries alone, and clear both buffers.
C13_AddMarkerUpsert ==
  [][/\ ev'.op = "form.addMarker" =>
          IF IsBlank(form_markerKey)
          THEN /\ form_patient'.geneticMarkers = form_patient.geneticMarkers
               /\ form_markerKey' = form_markerKey
               /\ form_markerValue' = form_markerValue
          ELSE /\ IsUpsertOf(form_patient'.geneticMarkers, form_patient.geneticMarkers,
                             Trim(form_markerKey), form_markerValue)
               /\ form_markerKey' = <<>>
               /\ form_markerValue' = ""
     /\ ev'.op = "form.addLifestyle" =>
          IF IsBlank(form_lifeKey)
          THEN /\ form_patient'.lifestyle = form_patient.lifestyle
               /\ form_lifeKey' = form_lifeKey
               /\ form_lifeValue' = form_lifeValue
          ELSE /\ IsUpsertOf(form_patient'.lifestyle, form_patient.lifestyle,
                             Trim(form_lifeKey), form_lifeValue)
               /\ form_lifeKey' = <<>>
               /\ form_lifeValue' = ""]_vars

\* a key that held one value was added again with another: the map holds the
\* later value, next to an entry of another key, and the buffers are empty
C13_Witness ==
  /\ ev.op = "form.addMarker"
  /\ ev.old = Some("v")
  /\ ev.value = ""
  /\ Cardinality(DOMAIN form_patient.geneticMarkers) = 2
  /\ form_patient.geneticMarkers[Trim(ev.key)] = ""
  /\ form_markerKey = <<>>
  /\ form_markerValue = ""

\* C14: add medication changes nothing exactly when the buffer's name is blank
\* or whitespace-only; otherwise the list is the list before with the buffer
\* appended at its end, also when the list already holds an equal record, and
\* the buffer has all fields empty.
C14_AddMedicationAppends ==
  [][ev'.op = "form.addMedication" =>
       LET before == form_patient.currentMedications
           after == form_patient'.currentMedications
       IN /\ (form_patient' = form_patient /\ form_med' = form_med)
               <=> IsBlank(form_med.name)
          /\ ~IsBlank(form_med.name) =>
               /\ Len(after) = Len(before) + 1
               /\ SubSeq(after, 1, Len(before)) = before
               /\ after[Len(after)] = form_med
               /\ form_med' = [name |-> <<>>, dosage |-> "", adherence |-> ""]]_vars

\* the record just added is the second of two equal records
C14_Witness ==
  /\ ev.op = "form.addMedication"
  /\ ~IsBlank(ev.med.name)
  /\ Len(form_patient.currentMedications) = 2
  /\ form_patient.currentMedications[1] = ev.med
  /\ form_patient.currentMedications[2] = ev.med
  /\ form_med = [name |-> <<>>, dosage |-> "", adherence |-> ""]

\* C15: when generatePlan returns plan P (getPlan having returned an empty or
\* missing plan), the panel holds P, the same items in the same order, with
\* error null and loading false.
C15_GeneratedPlanShown ==
  (ev.op = "plan.generatePlan.ok" /\ ev.res.plan # Null) =>
    /\ plan_plan = Val(ev.res.plan)
    /\ plan_error = Null
    /\ ~plan_loading

\* C16: when chat resolves with {answer, sources}, the panel holds that answer
\* and those sources ([] when absent) with error null and loading false; a new
\* ask starts from a null answer and empty sources.
C16_ChatAnswered ==
  /\ ev.op = "chat.ok" =>
       /\ chat_answer = Some(ev.res.answer)
       /\ chat_sources = (IF ev.res.sources = Null THEN <<>> ELSE Val(ev.res.sources))
       /\ chat_error = Null
       /\ ~chat_loading
  /\ (ev.op = "chat.onAsk" /\ ev.n > 0) =>
       /\ chat_answer = Null
       /\ chat_sources = <<>>
       /\ chat_error = Null
       /\ chat_loading

\* a second exchange without sources, after a first one that had some
C16_Witness ==
  /\ ev.op = "chat.ok"
  /\ ev.n = 2
  /\ ev.res.sources = Null
  /\ chat_sources = <<>>
  /\ chat_answer = Some(ev.res.answer)
  /\ \E d \in chat_done : d.n = 1 /\ d.kind = "answered" /\ d.sources # <<>>

\* C17: Regenerate leaves the plan empty and runs the generate flow from its
\* start: with a non-blank identifier it calls getPlan before anything else,
\* it calls generatePlan only after getPlan returned a missing or empty plan,
\* and when getPlan returns a non-empty plan that plan is displayed and the
\* flow ends without a generatePlan call.
C17_RegenerateRunsFullFlow ==
  /\ (ev.op = "plan.onGenerate" /\ ev.via = "regenerate") =>
       /\ plan_plan = <<>>
       /\ ev.n = 0 <=> IsBlank(plan_patientId)
       /\ ev.n > 0 =>
            \E f \in plan_flows :
              f.n = ev.n /\ f.pc = "getPlan" /\ f.nGet = 1 /\ f.nGen = 0
  /\ \A f \in plan_flows :
       (f.regenerate /\ f.nGen > 0) =>
         f.nGen = 1 /\ f.existing # Null /\ PlanMissingOrEmpty(Val(f.existing))
  /\ (ev.op = "plan.getPlan.ok" /\ ev.regenerate
        /\ ~PlanMissingOrEmpty(ev.existing)) =>
       /\ plan_plan = Val(ev.existing.plan)
       /\ \A f \in plan_flows : f.n # ev.n
       /\ \E d \in plan_done : d.n = ev.n /\ d.nGet = 1 /\ d.nGen = 0

\* a regenerate whose getPlan still reported a plan: adopted, nothing generated
C17_Witness ==
  /\ ev.op = "plan.getPlan.ok"
  /\ ev.regenerate
  /\ Len(plan_plan) > 0
  /\ plan_plan = Val(ev.existing.plan)
  /\ \E d \in plan_done : d.n = ev.n /\ d.kind = "stored" /\ d.nGen = 0

\* C18: an attempt that starts on a panel leaves the panel's error null before
\* its first call is answered, and when an attempt has succeeded and settled
\* the panel's error is null.
C18_ErrorClearedByNewAttempt ==
  /\ (ev.op = "summary.onSummarize" /\ ev.n > 0) => summary_error = Null
  /\ (ev.op = "plan.onGenerate" /\ ev.n > 0) => plan_error = Null
  /\ (ev.op = "chat.onAsk" /\ ev.n > 0) => chat_error = Null
  /\ (ev.op \in {"summary.getPatient.ok", "summary.summarizePatient.ok"}
        /\ \A f \in summary_flows : f.n # ev.n) => summary_error = Null
  /\ (ev.op \in {"plan.getPlan.ok", "plan.generatePlan.ok"}
        /\ \A f \in plan_flows : f.n # ev.n) => plan_error = Null
  /\ ev.op = "chat.ok" => chat_error = Null

\* the summary data the last event obtained, if it obtained any (styled version)
ObtainedData(e) ==
  IF e.op = "summary.getPatient.ok" THEN e.rec.summaryData
  ELSE IF e.op = "summary.summarizePatient.ok" THEN e.res.data
  ELSE Null

\* a field of the raw data, or a default when the field is missing
FieldOr(raw, field, default) ==
  IF raw[field] = Null THEN default ELSE Val(raw[field])

\* the fields the claim and the source agree on are defaulted in shown
DefaultsApplied(shown, raw) ==
  /\ shown.riskFactors = FieldOr(raw, "riskFactors", <<>>)
  /\ shown.clinicalInsights = FieldOr(raw, "clinicalInsights", <<>>)
  /\ shown.urgencyLevel = FieldOr(raw, "urgencyLevel", "Low")
  /\ shown.summary = FieldOr(raw, "summary", "")
  /\ \E now \in Times : shown.timestamp = FieldOr(raw, "timestamp", now)

SummaryOps ==
  {"summary.onChange", "summary.onSummarize", "summary.getPatient.ok",
   "summary.summarizePatient.ok", "summary.fail"}
PlanOps ==
  {"plan.onChange", "plan.onGenerate", "plan.getPlan.ok", "plan.delay",
   "plan.generatePlan.ok", "plan.fail"}
ChatOps == {"chat.onChange", "chat.onAsk", "chat.ok", "chat.fail"}
FormOps ==
  {"form.onChange", "form.handleSubmit", "form.createPatient.ok", "form.fail",
   "app.toastTimeout", "app.toastClose"}

\* C20: with the four panels rendered together, a user action or a response
\* in one panel leaves the state of the three others as it was, and with it
\* whether their buttons are disabled; a panel's button is usable whenever the
\* panel's own input is filled and the panel itself is not loading, whatever
\* the other panels are doing.
C20_PanelsIndependent ==
  [][/\ ev'.op \in SummaryOps =>
          /\ UNCHANGED <<planVars, chatVars, formVars>>
          /\ PlanButtonDisabled' = PlanButtonDisabled
          /\ ChatButtonDisabled' = ChatButtonDisabled
          /\ SubmitReachesHandler' = SubmitReachesHandler
     /\ ev'.op \in PlanOps =>
          /\ UNCHANGED <<summaryVars, chatVars, formVars>>
          /\ SummaryButtonDisabled' = SummaryButtonDisabled
          /\ ChatButtonDisabled' = ChatButtonDisabled
          /\ SubmitReachesHandler' = SubmitReachesHandler
     /\ ev'.op \in ChatOps =>
          /\ UNCHANGED <<summaryVars, planVars, formVars>>
          /\ SummaryButtonDisabled' = SummaryButtonDisabled
          /\ PlanButtonDisabled' = PlanButtonDisabled
          /\ SubmitReachesHandler' = SubmitReachesHandler
     /\ ev'.op \in FormOps =>
          /\ UNCHANGED <<summaryVars, planVars, chatVars>>
          /\ SummaryButtonDisabled' = SummaryButtonDisabled
          /\ PlanButtonDisabled' = PlanButtonDisabled
          /\ ChatButtonDisabled' = ChatButtonDisabled
     /\ (~IsBlank(summary_patientId) /\ ~summary_loading) => ~SummaryButtonDisabled
     /\ (~IsBlank(plan_patientId) /\ ~plan_loading) => ~PlanButtonDisabled
     /\ (~IsBlank(chat_question) /\ ~chat_loading) => ~ChatButtonDisabled
     /\ (form_patient.patientId # <<>> /\ form_patient.gender # <<>>
           /\ form_patient.primaryCondition # <<>> /\ ~form_loading)
          => SubmitReachesHandler]_vars

\* the Summary panel started its request while the three other panels were
\* loading, and their state is still that of their own pending request
C20_Witness ==
  /\ mounted = "all"
  /\ ev.op = "summary.onSummarize"
  /\ ev.n = 1
  /\ summary_loading
  /\ plan_loading /\ plan_issued = 1 /\ plan_done = {}
  /\ chat_loading /\ chat_issued = 1 /\ chat_done = {}
  /\ form_loading /\ form_issued = 1

\* C21: a rejected createPatient leaves its message (the detail, or the
\* fallback when there is none) in the toast slot with type 'error'; the form
\* holds no error of its own.  From then on the slot is eventually empty, by
\* the timers alone: no user action is assumed to happen.
C21_CreateFailureToast ==
  /\ [](ev.op = "form.fail" =>
         /\ app_toast =
              Some(IF ev.detail \in {Null, Some("")}
                   THEN "Failed to save patient. Please try again."
                   ELSE Val(ev.detail))
         /\ app_toastType = "error")
  /\ (ev.op = "form.fail") ~> (app_toast = Null)

\* the timer of an error toast has run and emptied the slot
C21_Witness ==
  /\ ev.op = "app.toastTimeout"
  /\ ev.cleared = ev.timer
  /\ app_toastType = "error"
  /\ app_toast = Null
  /\ form_flows = {}

\* the calls of a panel that were issued and have not settled
OutstandingCalls(flows) == {f \in flows : f.pc # "delay"}

\* C22: no timeout ends a call: while a call of a panel (or of the form) is
\* outstanding, the panel's loading flag is true.
C22_LoadingWhileOutstanding ==
  /\ OutstandingCalls(summary_flows) # {} => summary_loading
  /\ OutstandingCalls(plan_flows) # {} => plan_loading
  /\ chat_flows # {} => chat_loading
  /\ form_flows # {} => form_loading

\* the step that ended invocation n of a panel left nothing of it in flight
EndedAt(flows, n) == \A f \in flows : f.n # n

\* C23: nothing is retried.  Every invocation a user action started is either
\* in flight or ended, once; it has called its fetch endpoint once and its
\* generation endpoint at most once (chat and createPatient: the one call the
\* invocation consists of); and a rejected call ends its invocation with the
\* calls made so far: no call is issued for it again.
C23_NoRetry ==
  /\ \A f \in summary_flows \cup summary_done \cup plan_flows \cup plan_done :
       f.nGet = 1 /\ f.nGen \in {0, 1}
  /\ Cardinality({f.n : f \in summary_flows \cup summary_done}) = summary_issued
  /\ Cardinality(summary_flows) + Cardinality(summary_done) = summary_issued
  /\ Cardinality({f.n : f \in plan_flows \cup plan_done}) = plan_issued
  /\ Cardinality(plan_flows) + Cardinality(plan_done) = plan_issued
  /\ Cardinality({f.n : f \in chat_flows \cup chat_done}) = chat_issued
  /\ Cardinality(chat_flows) + Cardinality(chat_done) = chat_issued
  /\ Cardinality(form_flows) + app_toastSeq = form_issued
  /\ ev.op = "summary.fail" =>
       /\ EndedAt(summary_flows, ev.n)
       /\ \E d \in summary_done :
            d.n = ev.n /\ d.kind = "failed" /\ (ev.call = "getPatient" => d.nGen = 0)
  /\ ev.op = "plan.fail" =>
       /\ EndedAt(plan_flows, ev.n)
       /\ \E d \in plan_done :
            d.n = ev.n /\ d.kind = "failed" /\ (ev.call = "getPlan" => d.nGen = 0)
  /\ ev.op = "chat.fail" => EndedAt(chat_flows, ev.n)
  /\ ev.op = "form.fail" => EndedAt(form_flows, ev.n)

\* a rejected getPatient ended its invocation after that one call
C23_Witness ==
  /\ ev.op = "summary.fail"
  /\ ev.call = "getPatient"
  /\ summary_flows = {}
  /\ \E d \in summary_done :
       d.n = ev.n /\ d.kind = "failed" /\ d.nGet = 1 /\ d.nGen = 0

\* after is before without the element at position index, the others in order
IsRemovalAt(after, before, index) ==
  /\ Len(after) = Len(before) - 1
  /\ \A j \in 1..Len(after) : after[j] = before[IF j < index THEN j ELSE j + 1]

C25_BlankQuestionIgnored ==
  [][/\ (ev'.op = "chat.onAsk" /\ IsBlank(chat_question)) =>
          /\ ev'.n = 0
          /\ UNCHANGED <<chat_question, chat_loading, chat_answer, chat_sources,
                         chat_error, chat_flows, chat_done, chat_issued>>
     /\ IsBlank(chat_question') => ChatButtonDisabled'
     /\ \A f \in chat_flows' : ~IsBlank(f.question)]_vars

\* Enter on a whitespace-only question while an answer is displayed
C25_Witness ==
  /\ ev.op = "chat.onAsk"
  /\ ev.n = 0
  /\ chat_question = <<" ">>
  /\ chat_answer # Null
  /\ ~chat_loading
  /\ chat_flows = {}

\* the invocations among flows whose generation call has been issued
Generating(flows) == {f.n : f \in {g \in flows : g.nGen > 0}}

\* C26: within one invocation of the Summary or Plan panel the generation call
\* is issued only once the invocation's fetch call has succeeded (in the
\* styled Plan panel, after the delay that follows that success), it carries
\* the identifier the fetch call carried even if the input was edited in
\* between, and a rejected fetch call ends the invocation without one.
C26_GenerationFollowsFetch ==
  [][/\ \A n \in Generating(summary_flows') \ Generating(summary_flows) :
          ev'.op = "summary.getPatient.ok" /\ ev'.n = n
     /\ \A n \in Generating(plan_flows') \ Generating(plan_flows) :
          /\ ev'.n = n
          /\ ev'.op = (IF variant = "styled" THEN "plan.delay" ELSE "plan.getPlan.ok")
     /\ \A f \in plan_flows' :
          f.pc = "delay" => f.existing # Null /\ f.nGet = 1 /\ f.nGen = 0
     /\ \A f \in summary_flows' \cup plan_flows' :
          IF f.nGen > 0 THEN f.genId = Some(f.id) ELSE f.genId = Null
     /\ (ev'.op = "summary.fail" /\ ev'.call = "getPatient") =>
          \E d \in summary_done' : d.n = ev'.n /\ d.nGen = 0
     /\ (ev'.op = "plan.fail" /\ ev'.call = "getPlan") =>
          \E d \in plan_done' : d.n = ev'.n /\ d.nGen = 0]_vars

\* summarizePatient is pending for the identifier its invocation started with,
\* while the input holds another text
C26_Witness ==
  \E f \in summary_flows :
    /\ f.pc = "summarizePatient"
    /\ f.id = <<"P">>
    /\ f.genId = Some(<<"P">>)
    /\ summary_patientId # <<"P">>

\* a panel holds a result
SummaryHasResult == summary_summaryData # Null \/ summary_summary # Null
PlanHasResult == Len(plan_plan) > 0
ChatHasResult == chat_answer # Null

\* C27: no panel holds an error together with a result: a non-null error
\* excludes summary data in the Summary panel, a non-empty plan in the Plan
\* panel and an answer in the Chat panel.
C27_ErrorExcludesResult ==
  /\ summary_error # Null => ~SummaryHasResult
  /\ plan_error # Null => ~PlanHasResult
  /\ chat_error # Null => ~ChatHasResult

\* C28: a timer callback that clears a toast is the one scheduled by the
\* showToast call that displayed that toast: the timer of an earlier toast
\* never clears a later one.
C28_ToastClearedByOwnTimer ==
  (ev.op = "app.toastTimeout" /\ ev.cleared # 0) => ev.timer = ev.cleared

\* a text with a character that is no whitespace at each end
TrimmedText(t) == t # <<>> /\ t[1] # " " /\ t[Len(t)] # " "

\* C29: whatever the user did in the Patient Form, the draft's comorbidities
\* are trimmed, non-blank and pairwise different, every key of geneticMarkers
\* and of lifestyle is trimmed and non-blank, and every medication of the draft
\* has a name that is not blank.
C29_DraftWellFormed ==
  /\ \A i \in DOMAIN form_patient.comorbidities :
       /\ TrimmedText(form_patient.comorbidities[i])
       /\ \A j \in DOMAIN form_patient.comorbidities :
            i # j => form_patient.comorbidities[i] # form_patient.comorbidities[j]
  /\ \A k \in DOMAIN form_patient.geneticMarkers : TrimmedText(k)
  /\ \A k \in DOMAIN form_patient.lifestyle : TrimmedText(k)
  /\ \A i \in DOMAIN form_patient.currentMedications :
       \E c \in DOMAIN form_patient.currentMedications[i].name :
         form_patient.currentMedications[i].name[c] # " "

\* a marker entered with a leading blank is held under its trimmed key, next
\* to another marker
C29_Witness ==
  /\ ev.op = "form.addMarker"
  /\ ev.key = <<" ", "k">>
  /\ DOMAIN form_patient.geneticMarkers = {<<"k">>, <<"j">>}

\* C30: when every issued call settles, a component that is loading is
\* eventually not loading, and the Plan panel's isGenerating flag is false
\* whenever its loading flag is false.
C30_LoadingEnds ==
  /\ summary_loading ~> ~summary_loading
  /\ plan_loading ~> ~plan_loading
  /\ chat_loading ~> ~chat_loading
  /\ form_loading ~> ~form_loading
  /\ [](~plan_loading => ~plan_isGenerating)

====
